---- MODULE Spec2Model ----
(***************************************************************************)
(* HF2 packet framing: the command transmitter `xmit` and the response     *)
(* receiver `rx` of command.rs, in its two variants:                       *)
(*   "plain" : src/src/command.rs      (header at byte 0, scratch buffer,  *)
(*                                      no empty-read retry)               *)
(*   "hid"   : src/hf2/src/command.rs  (leading report-ID byte, owned Vec, *)
(*                                      five empty-read retries)           *)
(* Sequences are 1-based: Rust index i is TLA+ index i + 1.                *)
(***************************************************************************)
EXTENDS Integers, Sequences, FiniteSets, TLC

VARIABLES
    id, tag, data,          \* xmit's arguments (shared by both variants)
    xpc, xbuffer, xoffset, xcount, writes, xresult,   \* xmit, per variant
    rxv, seed, cap,         \* rx: variant, transport content seed, scratch length
    rpc, rbuffer, bitsnbytes, roffset, retries, reads, rresult, errAt, resp,
    calls, multi,           \* rx: the calls already returned; the two-call transport
    dval, dres              \* PacketType::try_from: argument and result

xvars == <<id, tag, data, xpc, xbuffer, xoffset, xcount, writes, xresult>>
rvars == <<rxv, seed, cap, rpc, rbuffer, bitsnbytes, roffset, retries, reads,
           rresult, errAt, resp, calls, multi>>
dvars == <<dval, dres>>
vars == <<xvars, rvars, dvars>>

Variants == {"plain", "hid"}

(* ------------------------------ bounds -------------------------------- *)
\* longest command payload handed to xmit
MaxLen == 120
\* most Inner packets the transport delivers to one rx call
MaxInner == 2

(* ------------------------- program constants -------------------------- *)
\* mutant: two bytes reserved per chunk instead of one
ChunkSizeShort == 64 - 2

\* "copy up to the first 55 bytes"
FirstDataMax == 55
\* chunks(64 - 1)
ChunkSize == 63
\* PacketType discriminants
Inner == 0
Final == 1
StdOut == 2
Stderr == 3
\* mutant: one retry fewer
RetriesInitShort == 5 - 1

\* let mut retries = 5
RetriesInit == 5
\* let buffer = &mut [0_u8; 64] in rx
ReadBufLen == 64

(* ------------------------------ helpers ------------------------------- *)
Min(a, b) == IF a < b THEN a ELSE b

Zeros(n) == [i \in 1..n |-> 0]

RECURSIVE BitAnd(_, _)
BitAnd(a, b) ==
    IF a = 0 \/ b = 0 THEN 0
    ELSE (IF a % 2 = 1 /\ b % 2 = 1 THEN 1 ELSE 0) + 2 * BitAnd(a \div 2, b \div 2)

RECURSIVE BitOr(_, _)
BitOr(a, b) ==
    IF a = 0 THEN b
    ELSE IF b = 0 THEN a
    ELSE (IF a % 2 = 1 \/ b % 2 = 1 THEN 1 ELSE 0) + 2 * BitOr(a \div 2, b \div 2)

\* u8 << 6 in a release build: the bits shifted out are lost
Shl6(k) == (k * 64) % 256

\* mutant: the shift is one bit short
Shr5(b) == b \div 32

\* u8 >> 6
Shr6(b) == b \div 64

\* n as u8
AsU8(n) == n % 256

\* mutant: the length counts the header byte too
EncodeHeaderPlusOne(ptype, n) == BitOr(Shl6(ptype), AsU8(n + 1))

\* (ptype as u8) << 6 | n as u8
EncodeHeader(ptype, n) == BitOr(Shl6(ptype), AsU8(n))

\* mutant: the bytes in big-endian order
LE32BigEndian(x) == << (x \div 16777216) % 256, (x \div 65536) % 256, (x \div 256) % 256, x % 256 >>

\* gwrite_with::<u32>(.., LE) / gwrite_with::<u16>(.., LE): little-endian bytes
LE32(x) == << x % 256, (x \div 256) % 256, (x \div 65536) % 256, (x \div 16777216) % 256 >>
LE16(x) == << x % 256, (x \div 256) % 256 >>

\* buf with bytes written at Rust index at, at+1, ...
WriteAt(buf, at, bytes) ==
    [i \in 1..Len(buf) |->
        IF i > at /\ i <= at + Len(bytes) THEN bytes[i - at] ELSE buf[i]]

\* buffer[..n]
Take(buf, n) == SubSeq(buf, 1, n)

\* no response (Err(Error::Parse), or none yet)
NoResp == [ok |-> FALSE]

(* ------------------------------- xmit --------------------------------- *)
\* number of report-ID bytes before the header: 0 in the plain variant, 1 in hid
ReportIdLen(v) == IF v = "hid" THEN 1 ELSE 0

\* [0_u8; 64] / [0_u8; 65]
XmitBufLen(v) == IF v = "hid" THEN 65 ELSE 64

\* mutant: the hid variant puts the header at byte 0 too
HeaderIdxZero(v) == 0

\* Rust index of the packet header byte
HeaderIdx(v) == ReportIdLen(v)

\* the 8-byte command struct: id, tag, two reserved zero bytes
CommandHeader(i, t) == LE32(i) \o LE16(t) \o << 0, 0 >>

\* let mut count = if data.len() > 55 { 55 } else { data.len() }
FirstCount(d) == IF Len(d) > FirstDataMax THEN FirstDataMax ELSE Len(d)

\* mutant: each chunk starts one byte early
NextChunkOverlap(d, c) == SubSeq(d, c, Min(c + ChunkSize - 1, Len(d)))

\* the next chunk of data[count..].chunks(64 - 1)
NextChunk(d, c) == SubSeq(d, c + 1, Min(c + ChunkSize, Len(d)))

\* mutant: the two kinds swapped
PacketKindSwapped(c, n) == IF c = n THEN Inner ELSE Final

\* if count == data.len() { Final } else { Inner }
PacketKind(c, n) == IF c = n THEN Final ELSE Inner

\* mutant: the result of my_write is dropped instead of propagated with `?`
WriteOutcomeNoAbort(v, buf, ok, n, pcOk, resOk) ==
    /\ writes' = [writes EXCEPT ![v] = Append(@, [buf |-> buf, ok |-> ok, n |-> n])]
    /\ xpc' = [xpc EXCEPT ![v] = pcOk]
    /\ xresult' = [xresult EXCEPT ![v] = resOk]

\* mutant: a write that reports fewer bytes than the packet holds is an error
WriteOutcomeChecksCount(v, buf, ok, n, pcOk, resOk) ==
    /\ writes' = [writes EXCEPT ![v] = Append(@, [buf |-> buf, ok |-> ok, n |-> n])]
    /\ xpc' = [xpc EXCEPT ![v] = IF ok /\ n >= Len(buf) THEN pcOk ELSE "done"]
    /\ xresult' = [xresult EXCEPT ![v] =
                      IF ok /\ n >= Len(buf) THEN resOk ELSE "Transmission"]

\* the outcome of d.my_write(..)?: the write is logged, an error ends the
\* call, the byte count n of an Ok is dropped
WriteOutcome(v, buf, ok, n, pcOk, resOk) ==
    /\ writes' = [writes EXCEPT ![v] = Append(@, [buf |-> buf, ok |-> ok, n |-> n])]
    /\ xpc' = [xpc EXCEPT ![v] = IF ok THEN pcOk ELSE "done"]
    /\ xresult' = [xresult EXCEPT ![v] = IF ok THEN resOk ELSE "Transmission"]

\* what d.my_write(buf) returns: an error, or Ok with a byte count (nothing,
\* one byte short, all of buf)
WriteReturns(buf) ==
    { [ok |-> FALSE, n |-> 0] } \cup
    { [ok |-> TRUE, n |-> k] : k \in {0, Len(buf) - 1, Len(buf)} }

\* xmit up to and including the first my_write
XmitFirst(v) ==
    /\ xpc[v] = "start"
    /\ LET h == HeaderIdx(v)
           c == FirstCount(data)
           b0 == WriteAt(Zeros(XmitBufLen(v)), h + 1, CommandHeader(id, tag))
           b1 == WriteAt(b0, h + 9, SubSeq(data, 1, c))
           off == h + 9 + c
           last == (c = Len(data))
           b2 == WriteAt(b1, h,
                    << EncodeHeader(PacketKind(c, Len(data)), off - (h + 1)) >>)
       IN /\ xbuffer' = [xbuffer EXCEPT ![v] = b2]
          /\ xoffset' = [xoffset EXCEPT ![v] = off]
          /\ xcount' = [xcount EXCEPT ![v] = c]
          /\ \E w \in WriteReturns(Take(b2, off)) :
                WriteOutcome(v, Take(b2, off), w.ok, w.n,
                             IF last THEN "done" ELSE "chunks",
                             IF last THEN "Ok" ELSE "none")
    /\ UNCHANGED <<id, tag, data, rvars, dvars>>

\* one iteration of `for chunk in data[count..].chunks(63)`
XmitChunk(v) ==
    /\ xpc[v] = "chunks"
    /\ xcount[v] < Len(data)
    /\ LET h == HeaderIdx(v)
           chunk == NextChunk(data, xcount[v])
           c == xcount[v] + Len(chunk)
           b1 == WriteAt(xbuffer[v], h,
                    << EncodeHeader(PacketKind(c, Len(data)), Len(chunk)) >>)
           b2 == WriteAt(b1, h + 1, chunk)
       IN /\ xbuffer' = [xbuffer EXCEPT ![v] = b2]
          /\ xcount' = [xcount EXCEPT ![v] = c]
          /\ \E w \in WriteReturns(Take(b2, Len(chunk) + h + 1)) :
                WriteOutcome(v, Take(b2, Len(chunk) + h + 1), w.ok, w.n,
                             "chunks", "none")
    /\ UNCHANGED <<id, tag, data, xoffset, rvars, dvars>>

\* the chunk iterator is exhausted: Ok(())
XmitReturn(v) ==
    /\ xpc[v] = "chunks"
    /\ xcount[v] >= Len(data)
    /\ xpc' = [xpc EXCEPT ![v] = "done"]
    /\ xresult' = [xresult EXCEPT ![v] = "Ok"]
    /\ UNCHANGED <<id, tag, data, xbuffer, xoffset, xcount, writes, rvars, dvars>>

(* ------------------- inputs of the xmit specification ------------------ *)
\* 0x00000006 (the test's id) and 0x7F00FD01 (TLC's integers are 32-bit signed,
\* so the ids modelled are the u32 values below 2^31)
Ids == {6, 2130771201}
Tags == {4, 43981}              \* 0x0004 (the test's tag), 0xABCD
DataSeeds == {0, 77}

\* a payload of n bytes whose every byte differs from its neighbours' and
\* from the byte 55 and 63 places away
MkData(s, n) == [i \in 1..n |-> (s + 3 * i) % 256]

RxIdle ==
    /\ rxv = "hid" /\ seed = 0 /\ cap = 0
    /\ rpc = "idle" /\ rbuffer = << >> /\ bitsnbytes = << >> /\ roffset = 0
    /\ retries = 0 /\ reads = << >> /\ rresult = "none" /\ errAt = "none"
    /\ resp = NoResp
    /\ calls = << >> /\ multi = FALSE

\* PacketType::try_from has not returned
NotDecoded == 0 - 2

\* PacketType::try_from is not being called
DecodeIdle == dval = 0 /\ dres = NotDecoded

Init ==
    /\ id \in Ids
    /\ tag \in Tags
    /\ \E s \in DataSeeds, n \in 0..MaxLen : data = MkData(s, n)
    /\ xpc = [v \in Variants |-> "start"]
    /\ xbuffer = [v \in Variants |-> Zeros(XmitBufLen(v))]
    /\ xoffset = [v \in Variants |-> HeaderIdx(v) + 1]
    /\ xcount = [v \in Variants |-> 0]
    /\ writes = [v \in Variants |-> << >>]
    /\ xresult = [v \in Variants |-> "none"]
    /\ RxIdle
    /\ DecodeIdle

Next ==
    \E v \in Variants : XmitFirst(v) \/ XmitChunk(v) \/ XmitReturn(v)

Spec == Init /\ [][Next]_vars

(* -------------------------------- rx ---------------------------------- *)
\* Err(Error::Parse) of PacketType::try_from
NoKind == 0 - 1

\* mutant: the value is masked to two bits before the match
PacketTypeTryFromMasked(val) ==
    IF val % 4 = 0 THEN Inner
    ELSE IF val % 4 = 1 THEN Final
    ELSE IF val % 4 = 2 THEN StdOut
    ELSE Stderr

\* PacketType::try_from(val)
PacketTypeTryFrom(val) ==
    IF val = 0 THEN Inner
    ELSE IF val = 1 THEN Final
    ELSE IF val = 2 THEN StdOut
    ELSE IF val = 3 THEN Stderr
    ELSE NoKind

\* mutant: every other status byte read as ExecutionError
StatusTryFromLenient(val) ==
    IF val = 0 THEN "Success"
    ELSE IF val = 1 THEN "ParseError"
    ELSE "ExecutionError"

\* CommandResponseStatus::try_from(val)
StatusTryFrom(val) ==
    IF val = 0 THEN "Success"
    ELSE IF val = 1 THEN "ParseError"
    ELSE IF val = 2 THEN "ExecutionError"
    ELSE "Err"

\* (buffer[0] & 0x3F) as usize
LenField(b) == BitAnd(b, 63)

\* mutant: len == count let through
LenExceedsStrict(len, count) == len > count

\* mutant: the length field is not checked against count
LenUnchecked(len, count) == FALSE

\* if len >= count { return Err(Error::Parse) }
LenExceeds(len, count) == len >= count

\* mutant: the slice starts at the header byte
PayloadSliceWithHeader(buf, len) == SubSeq(buf, 1, len)

\* &buffer[1..=len]
PayloadSlice(buf, len) == SubSeq(buf, 2, len + 1)

\* retries -= 1
RetriesOnEmpty(r) == r - 1

\* mutant: a packet replenishes the budget
RetriesReset(r) == RetriesInit

\* the non-empty path of the loop body never assigns retries
RetriesOnPacket(r) == r

\* mutant: "keep reading until Final packet" taken literally
ContinueUntilFinal(ptype) == ptype # Final

\* the `while { .. ptype == PacketType::Inner } {}` condition
ContinueLoop(ptype) == ptype = Inner

\* CommandResponse::try_from / try_from_ctx
ParseResponse(b) ==
    IF Len(b) < 4 THEN NoResp
    ELSE IF StatusTryFrom(b[3]) = "Err" THEN NoResp
    ELSE [ok |-> TRUE,
          tag |-> b[1] + 256 * b[2],
          status |-> StatusTryFrom(b[3]),
          status_info |-> b[4],
          data |-> SubSeq(b, 5, Len(b))]

\* mutant: the whole scratch buffer is parsed, not its first offset bytes
AccumWholeScratch == bitsnbytes

\* the bytes accumulated so far: the Vec (hid), &bitsnbytes[..offset] (plain)
Accum == IF rxv = "plain" THEN Take(bitsnbytes, roffset) ELSE bitsnbytes

\* d.my_read(buffer) delivered `bytes`: they overwrite the front of the buffer,
\* what an earlier read left behind them stays
Deliver(buf, bytes) == bytes \o SubSeq(buf, Len(bytes) + 1, Len(buf))

IsPacket(r) == ~r.err /\ r.bytes # << >>

\* the two-call transport stalls only before a run
MayStall == multi => \A k \in 1..Len(reads) : ~IsPacket(reads[k])

RxFail(res, at) ==
    /\ rpc' = "done"
    /\ rresult' = res
    /\ errAt' = at

\* mutant: a read error is taken for an empty read and retried
RxReadErrorRetried ==
    /\ rpc = "read"
    /\ reads' = Append(reads, [err |-> TRUE, bytes |-> << >>])
    /\ IF rxv = "hid" /\ ~(retries <= 0)
       THEN /\ retries' = retries - 1
            /\ UNCHANGED <<rpc, rresult, errAt>>
       ELSE /\ RxFail("Transmission", "read")
            /\ UNCHANGED retries
    /\ UNCHANGED <<xvars, dvars, calls, multi, rxv, seed, cap, rbuffer, bitsnbytes, roffset, resp>>

\* d.my_read(buffer)? returns an error
RxReadError ==
    /\ rpc = "read"
    /\ reads' = Append(reads, [err |-> TRUE, bytes |-> << >>])
    /\ RxFail("Transmission", "read")
    /\ UNCHANGED <<xvars, dvars, calls, multi, rxv, seed, cap, rbuffer, bitsnbytes, roffset, retries, resp>>

\* mutant: the accumulated bytes are dropped on a retry
RxReadEmptyClears ==
    /\ rpc = "read"
    /\ MayStall
    /\ reads' = Append(reads, [err |-> FALSE, bytes |-> << >>])
    /\ IF rxv = "hid" /\ ~(retries <= 0)
       THEN /\ retries' = retries - 1
            /\ bitsnbytes' = << >>
            /\ UNCHANGED <<rpc, rresult, errAt>>
       ELSE /\ RxFail("Parse", "empty")
            /\ UNCHANGED <<retries, bitsnbytes>>
    /\ UNCHANGED <<xvars, dvars, calls, multi, rxv, seed, cap, rbuffer, roffset, resp>>

\* d.my_read(buffer)? returns 0: retry (hid, while budget is left) or fail
RxReadEmpty ==
    /\ rpc = "read"
    /\ MayStall
    /\ reads' = Append(reads, [err |-> FALSE, bytes |-> << >>])
    /\ IF rxv = "hid" /\ ~(retries <= 0)
       THEN /\ retries' = RetriesOnEmpty(retries)
            /\ UNCHANGED <<rpc, rresult, errAt>>
       ELSE /\ RxFail("Parse", "empty")
            /\ UNCHANGED retries
    /\ UNCHANGED <<xvars, dvars, calls, multi, rxv, seed, cap, rbuffer, bitsnbytes, roffset, resp>>

\* the loop body for a read that delivered `bytes` (count = Len(bytes) >= 1)
RxPacket(bytes) ==
    LET buf == Deliver(rbuffer, bytes)
        count == Len(bytes)
        ptype == PacketTypeTryFrom(Shr6(buf[1]))
        len == LenField(buf[1])
        slice == PayloadSlice(buf, len)
    IN /\ rbuffer' = buf
       /\ reads' = Append(reads, [err |-> FALSE, bytes |-> bytes])
       /\ retries' = RetriesOnPacket(retries)
       /\ IF ptype = NoKind THEN
              RxFail("Parse", "kind") /\ UNCHANGED <<bitsnbytes, roffset>>
          ELSE IF LenExceeds(len, count) THEN
              RxFail("Parse", "length") /\ UNCHANGED <<bitsnbytes, roffset>>
          ELSE IF rxv = "plain" /\ roffset + len > cap THEN
              \* bitsnbytes[offset + i] = *v indexes past the scratch buffer
              /\ bitsnbytes' = WriteAt(bitsnbytes, roffset,
                                       SubSeq(slice, 1, cap - roffset))
              /\ RxFail("panic", "bounds")
              /\ UNCHANGED roffset
          ELSE
              /\ IF rxv = "plain"
                 THEN /\ bitsnbytes' = WriteAt(bitsnbytes, roffset, slice)
                      /\ roffset' = roffset + len
                 ELSE /\ bitsnbytes' = bitsnbytes \o slice
                      /\ UNCHANGED roffset
              /\ rpc' = IF ContinueLoop(ptype) THEN "read" ELSE "parse"
              /\ UNCHANGED <<rresult, errAt>>

(* the transport of the rx specification *)
\* payload and padding bytes of the i-th read
Palette == <<0, 1, 2, 3, 255, 84, 63>>
ByteAt(s, i, j) == Palette[((s + 5 * i + j) % 7) + 1]
ReadBytes(s, i, hdr, count) ==
    [j \in 1..count |-> IF j = 1 THEN hdr ELSE ByteAt(s, i, j - 1)]

\* <<declared length, bytes delivered>>
Shapes == { <<0, 1>>, <<3, 4>>, <<4, 5>>, <<5, 64>>, <<63, 64>>, <<2, 2>>, <<63, 1>> }
Seeds == {0, 4}
Caps == {6, 256}

\* the two-call transport delivers these
Shapes2 == { <<3, 4>>, <<5, 64>>, <<2, 2>> }
Seeds2 == {0, 1}

\* reads made by the calls that already returned
RECURSIVE PastReads(_)
PastReads(k) == IF k = 0 THEN 0 ELSE PastReads(k - 1) + Len(calls[k].reads)

\* number of the next read of this transport
ReadNo == PastReads(Len(calls)) + Len(reads) + 1

\* the runs of the two-call transport hold at most one Inner packet
InnerLimit == IF multi THEN 1 ELSE MaxInner
InnerSeen == Cardinality({k \in 1..Len(reads) :
                 IsPacket(reads[k]) /\ Shr6(reads[k].bytes[1]) = Inner})

\* d.my_read(buffer)? returns count >= 1
RxReadPacket ==
    /\ rpc = "read"
    /\ \E kind \in {Inner, Final, StdOut, Stderr},
          sh \in (IF multi THEN Shapes2 ELSE Shapes) :
          /\ kind = Inner => InnerSeen < InnerLimit
          /\ RxPacket(ReadBytes(seed, ReadNo, kind * 64 + sh[1], sh[2]))
    /\ UNCHANGED <<xvars, dvars, calls, multi, rxv, seed, cap, resp>>

\* mutant: a device-reported failure status is turned into an error
RxParseStatusAsError ==
    /\ rpc = "parse"
    /\ LET r == ParseResponse(Accum)
       IN IF ~r.ok
          THEN RxFail("Parse", "response") /\ UNCHANGED resp
          ELSE IF r.status # "Success"
          THEN RxFail("Execution", "status") /\ UNCHANGED resp
          ELSE /\ rpc' = "done"
               /\ rresult' = "Ok"
               /\ resp' = r
               /\ UNCHANGED errAt
    /\ UNCHANGED <<xvars, dvars, calls, multi, rxv, seed, cap, rbuffer, bitsnbytes, roffset, retries, reads>>

\* after the loop: parse the accumulated bytes and return
RxParse ==
    /\ rpc = "parse"
    /\ LET r == ParseResponse(Accum)
       IN IF ~r.ok
          THEN RxFail("Parse", "response") /\ UNCHANGED resp
          ELSE /\ rpc' = "done"
               /\ rresult' = "Ok"
               /\ resp' = r
               /\ UNCHANGED errAt
    /\ UNCHANGED <<xvars, dvars, calls, multi, rxv, seed, cap, rbuffer, bitsnbytes, roffset, retries, reads>>

XmitIdle ==
    /\ id = 0 /\ tag = 0 /\ data = << >>
    /\ xpc = [v \in Variants |-> "idle"]
    /\ xbuffer = [v \in Variants |-> << >>]
    /\ xoffset = [v \in Variants |-> 0]
    /\ xcount = [v \in Variants |-> 0]
    /\ writes = [v \in Variants |-> << >>]
    /\ xresult = [v \in Variants |-> "none"]

\* the state on entry to the first rx call
RxEntry ==
    /\ XmitIdle
    /\ DecodeIdle
    /\ calls = << >>
    /\ rxv \in Variants
    /\ cap \in (IF rxv = "plain" THEN Caps ELSE {0})
    /\ rpc = "read"
    /\ rbuffer = Zeros(ReadBufLen)
    /\ bitsnbytes = (IF rxv = "plain" THEN Zeros(cap) ELSE << >>)
    /\ roffset = 0
    /\ retries = RetriesInit
    /\ reads = << >>
    /\ rresult = "none"
    /\ errAt = "none"
    /\ resp = NoResp

InitRx == RxEntry /\ seed \in Seeds /\ multi = FALSE

NextRx == RxReadError \/ RxReadEmpty \/ RxReadPacket \/ RxParse

SpecRx == InitRx /\ [][NextRx]_vars

(* ------------------------ rx called a second time ---------------------- *)
\* the calls of the two-call specification
CallNos == {1, 2}

\* what a returned call leaves to be looked at
Returned == [reads |-> reads, rresult |-> rresult, errAt |-> errAt,
             resp |-> resp, retries |-> retries]

\* mutant: the Vec / the offset outlives the call
RxCallKeepsVec ==
    /\ multi /\ rpc = "done"
    /\ Len(calls) + 1 \in CallNos /\ Len(calls) + 2 \in CallNos
    /\ calls' = Append(calls, Returned)
    /\ rpc' = "read"
    /\ rbuffer' = Zeros(ReadBufLen)
    /\ retries' = RetriesInit
    /\ reads' = << >>
    /\ rresult' = "none"
    /\ errAt' = "none"
    /\ resp' = NoResp
    /\ UNCHANGED <<xvars, dvars, multi, rxv, seed, cap, bitsnbytes, roffset>>

\* mutant: the retry budget outlives the call
RxCallKeepsBudget ==
    /\ multi /\ rpc = "done"
    /\ Len(calls) + 1 \in CallNos /\ Len(calls) + 2 \in CallNos
    /\ calls' = Append(calls, Returned)
    /\ rpc' = "read"
    /\ rbuffer' = Zeros(ReadBufLen)
    /\ bitsnbytes' = (IF rxv = "plain" THEN bitsnbytes ELSE << >>)
    /\ roffset' = 0
    /\ reads' = << >>
    /\ rresult' = "none"
    /\ errAt' = "none"
    /\ resp' = NoResp
    /\ UNCHANGED <<xvars, dvars, multi, rxv, seed, cap, retries>>

\* rx is entered again after it returned: its locals (buffer, the Vec or the
\* offset, retries) are created anew; the caller's scratch buffer (plain)
\* keeps the bytes of the earlier call
RxCall ==
    /\ multi /\ rpc = "done"
    /\ Len(calls) + 1 \in CallNos /\ Len(calls) + 2 \in CallNos
    /\ calls' = Append(calls, Returned)
    /\ rpc' = "read"
    /\ rbuffer' = Zeros(ReadBufLen)
    /\ bitsnbytes' = (IF rxv = "plain" THEN bitsnbytes ELSE << >>)
    /\ roffset' = 0
    /\ retries' = RetriesInit
    /\ reads' = << >>
    /\ rresult' = "none"
    /\ errAt' = "none"
    /\ resp' = NoResp
    /\ UNCHANGED <<xvars, dvars, multi, rxv, seed, cap>>

InitRx2 == RxEntry /\ seed \in Seeds2 /\ multi = TRUE

NextRx2 == RxReadError \/ RxReadEmpty \/ RxReadPacket \/ RxParse \/ RxCall

SpecRx2 == InitRx2 /\ [][NextRx2]_vars

(* ----------------------- PacketType::try_from alone -------------------- *)
\* every value a u8 can hold
U8 == 0..255

\* PacketType::try_from(dval) returns
DecodeKind ==
    /\ dres = NotDecoded
    /\ dres' = PacketTypeTryFrom(dval)
    /\ UNCHANGED <<xvars, rvars, dval>>

InitDecode ==
    /\ XmitIdle
    /\ RxIdle
    /\ dval \in U8
    /\ dres = NotDecoded

NextDecode == DecodeKind

SpecDecode == InitDecode /\ [][NextDecode]_vars

(* ===================== claims about xmit (under Spec) ================== *)
\* a packet's declared payload: the header (and report-ID) byte stripped,
\* exactly `length` bytes kept
Declared(v, p) ==
    SubSeq(p, ReportIdLen(v) + 2, ReportIdLen(v) + 1 + (p[ReportIdLen(v) + 1] % 64))

RECURSIVE CatDeclared(_, _, _)
CatDeclared(v, ws, k) ==
    IF k = 0 THEN << >> ELSE CatDeclared(v, ws, k - 1) \o Declared(v, ws[k].buf)

\* the number a little-endian byte string stands for
RECURSIVE FromLE(_)
FromLE(bs) == IF bs = << >> THEN 0 ELSE bs[1] + 256 * FromLE(Tail(bs))

IsPrefix(a, b) == Len(a) <= Len(b) /\ a = SubSeq(b, 1, Len(a))

\* C1: round trip. When xmit returns Ok, the declared payloads of the packets it
\* wrote, concatenated in write order, are the 8-byte command header (id LE,
\* tag LE, two zero bytes) followed by data, byte for byte.
C1_RoundTrip ==
    \A v \in Variants :
        xresult[v] = "Ok" =>
            LET cat == CatDeclared(v, writes[v], Len(writes[v]))
            IN /\ Len(cat) = 8 + Len(data)
               /\ FromLE(SubSeq(cat, 1, 4)) = id
               /\ FromLE(SubSeq(cat, 5, 6)) = tag
               /\ cat[7] = 0 /\ cat[8] = 0
               /\ SubSeq(cat, 9, Len(cat)) = data

C1_Witness ==
    /\ Len(data) = 118 /\ id = 2130771201 /\ tag = 43981
    /\ \A v \in Variants : xresult[v] = "Ok" /\ Len(writes[v]) = 2

\* C2: chunk-count law. A successful xmit of L data bytes performs 1 write if
\* L <= 55 and 1 + ceil((L - 55) / 63) writes otherwise.
C2_ChunkCount ==
    \A v \in Variants :
        xresult[v] = "Ok" =>
            Len(writes[v]) =
                IF Len(data) <= 55 THEN 1
                ELSE 1 + ((Len(data) - 55) + 62) \div 63

C2_Witness ==
    Len(data) = 119 /\ xresult["plain"] = "Ok" /\ Len(writes["plain"]) = 3

\* kind bits of a written packet
KindOf(v, p) == p[ReportIdLen(v) + 1] \div 64

\* C3: in the packets written by a successful xmit exactly one is Final, it is
\* the last one written, every other is Inner; no StdOut or Stderr packet is
\* ever written.
C3_FinalLast ==
    \A v \in Variants :
        /\ \A k \in 1..Len(writes[v]) : KindOf(v, writes[v][k].buf) \in {0, 1}
        /\ xresult[v] = "Ok" =>
              /\ Len(writes[v]) >= 1
              /\ \A k \in 1..Len(writes[v]) :
                    KindOf(v, writes[v][k].buf) = IF k = Len(writes[v]) THEN 1 ELSE 0

C3_Witness ==
    /\ Len(data) = 120 /\ xresult["hid"] = "Ok" /\ Len(writes["hid"]) = 3
    /\ KindOf("hid", writes["hid"][1].buf) = 0
    /\ KindOf("hid", writes["hid"][2].buf) = 0
    /\ KindOf("hid", writes["hid"][3].buf) = 1

\* C4: every written buffer is report-ID byte (hid only, zero), header byte,
\* then exactly `length` payload bytes with length <= 63; the header's low six
\* bits are that length and its top two bits the kind, Inner or Final.
C4_PacketInvariant ==
    \A v \in Variants : \A k \in 1..Len(writes[v]) :
        LET p == writes[v][k].buf
            h == ReportIdLen(v)
            n == Len(p) - h - 1
        IN /\ n >= 0 /\ n <= 63
           /\ Len(p) <= 64 + h
           /\ p[h + 1] % 64 = n
           /\ p[h + 1] \in {n, 64 + n}
           /\ (v = "hid" => p[1] = 0)

C4_Witness ==
    /\ Len(writes["plain"]) = 2 /\ Len(writes["plain"][2].buf) = 64
    /\ writes["plain"][2].buf[1] = 127
    /\ Len(writes["hid"]) = 1 /\ Len(writes["hid"][1].buf) = 65

\* C5: the first packet carries the command header then the first min(L, 55)
\* data bytes, with length field 8 + min(L, 55); the k-th packet (k >= 2)
\* carries data bytes 55 + 63(k-2) .. min(L, 55 + 63(k-1)) - 1 (Rust indices),
\* with length field equal to that chunk's size.
C5_PacketLayout ==
    \A v \in Variants : \A k \in 1..Len(writes[v]) :
        LET p == writes[v][k].buf
            h == ReportIdLen(v)
            body == SubSeq(p, h + 2, Len(p))
            L == Len(data)
            m == IF L < 55 THEN L ELSE 55
            lo == 55 + 63 * (k - 2)
            hi == IF L < 55 + 63 * (k - 1) THEN L ELSE 55 + 63 * (k - 1)
        IN IF k = 1
           THEN /\ Len(body) = 8 + m
                /\ p[h + 1] % 64 = 8 + m
                /\ FromLE(SubSeq(body, 1, 4)) = id
                /\ FromLE(SubSeq(body, 5, 6)) = tag
                /\ body[7] = 0 /\ body[8] = 0
                /\ SubSeq(body, 9, 8 + m) = SubSeq(data, 1, m)
           ELSE /\ hi > lo
                /\ body = SubSeq(data, lo + 1, hi)
                /\ p[h + 1] % 64 = hi - lo

C5_Witness ==
    /\ Len(data) = 120 /\ Len(writes["plain"]) = 3
    /\ Len(writes["plain"][1].buf) = 64
    /\ Len(writes["plain"][2].buf) = 64
    /\ Len(writes["plain"][3].buf) = 3
    /\ writes["plain"][3].buf[3] = data[120]

\* C6: one write per packet, in order, and fail-fast. The payloads written so
\* far are a prefix of header ++ data (no packet skipped or written twice); a
\* write that returned an error is the last write made, and xmit has returned
\* that error.
C6_FailFast ==
    \A v \in Variants :
        /\ IsPrefix(CatDeclared(v, writes[v], Len(writes[v])),
                    <<id % 256, (id \div 256) % 256, (id \div 65536) % 256,
                      id \div 16777216, tag % 256, tag \div 256, 0, 0>> \o data)
        /\ \A k \in 1..Len(writes[v]) :
              ~writes[v][k].ok =>
                  /\ k = Len(writes[v])
                  /\ xpc[v] = "done"
                  /\ xresult[v] = "Transmission"
        /\ (xresult[v] = "Transmission") =>
              /\ Len(writes[v]) >= 1
              /\ ~writes[v][Len(writes[v])].ok

C6_Witness ==
    /\ Len(data) = 119
    /\ Len(writes["hid"]) = 2 /\ ~writes["hid"][2].ok /\ writes["hid"][1].ok
    /\ xpc["hid"] = "done" /\ xresult["hid"] = "Transmission"

\* C17: the two xmit variants write the same packets: the k-th buffer of the
\* hid variant is the k-th buffer of the plain variant with one 0x00 report-ID
\* byte in front, and when both return Ok they wrote equally many buffers.
C17_VariantsAgree ==
    /\ \A k \in 1..Min(Len(writes["plain"]), Len(writes["hid"])) :
          writes["hid"][k].buf = <<0>> \o writes["plain"][k].buf
    /\ (xresult["plain"] = "Ok" /\ xresult["hid"] = "Ok")
          => Len(writes["hid"]) = Len(writes["plain"])

C17_Witness ==
    /\ xresult["plain"] = "Ok" /\ xresult["hid"] = "Ok"
    /\ Len(data) > FirstDataMax + ChunkSize
    /\ Len(writes["hid"]) = 3 /\ Len(writes["plain"]) = 3
    /\ writes["plain"][3].buf # << >>

\* C24: xmit drops the byte count of a successful write: after a write that
\* returned Ok, whatever count it reported (0 and one byte short included),
\* xmit goes on; when no write fails it returns Ok having written every
\* packet exactly once.
C24_WriteCountIgnored ==
    \A v \in Variants :
        /\ \A k \in 1..Len(writes[v]) :
              writes[v][k].ok =>
                  (k < Len(writes[v]) \/ xresult[v] \in {"none", "Ok"})
        /\ (xpc[v] = "done" /\ \A k \in 1..Len(writes[v]) : writes[v][k].ok) =>
              /\ xresult[v] = "Ok"
              /\ CatDeclared(v, writes[v], Len(writes[v])) =
                     CommandHeader(id, tag) \o data
              /\ Len(writes[v]) =
                     IF Len(data) <= FirstDataMax THEN 1
                     ELSE 1 + ((Len(data) - FirstDataMax) + ChunkSize - 1) \div ChunkSize

C24_Witness ==
    /\ xpc["hid"] = "done" /\ xresult["hid"] = "Ok"
    /\ Len(writes["hid"]) = 3
    /\ writes["hid"][1].n = 0
    /\ writes["hid"][2].n = Len(writes["hid"][2].buf) - 1
    /\ writes["hid"][3].n = 0
    /\ xresult["plain"] = "Ok" /\ writes["plain"][1].n < Len(writes["plain"][1].buf)

(* ===================== claims about rx (under SpecRx) ================== *)
IsEmptyRead(r) == ~r.err /\ r.bytes = << >>

\* what the transport delivered: declared length and byte count of a packet
DeclLen(r) == r.bytes[1] % 64
Count(r) == Len(r.bytes)
KindBits(r) == r.bytes[1] \div 64

\* a packet read whose declared length lies inside the bytes delivered
WellFormed(r) == IsPacket(r) /\ DeclLen(r) < Count(r)

\* bytes [1 .. 1+len] of every well-formed packet among the first k reads
RECURSIVE CatReads(_, _)
CatReads(log, k) ==
    IF k = 0 THEN << >>
    ELSE CatReads(log, k - 1) \o
         (IF WellFormed(log[k]) THEN SubSeq(log[k].bytes, 2, 1 + DeclLen(log[k]))
          ELSE << >>)

NumEmpty(log) == Cardinality({k \in 1..Len(log) : IsEmptyRead(log[k])})

\* the empty reads the log starts with
RECURSIVE LeadingEmpty(_)
LeadingEmpty(log) ==
    IF log # << >> /\ IsEmptyRead(Head(log)) THEN 1 + LeadingEmpty(Tail(log)) ELSE 0

\* reads a+1 .. Len(log) are a valid packet run: Inner packets, then one
\* terminal packet, all well-formed, carrying a well-formed response
ValidRunFrom(log, a) ==
    /\ Len(log) > a
    /\ \A k \in (a + 1)..Len(log) :
          /\ WellFormed(log[k])
          /\ (KindBits(log[k]) = 0) <=> (k < Len(log))
    /\ Len(CatReads(log, Len(log))) >= 4
    /\ CatReads(log, Len(log))[3] \in {0, 1, 2}

\* a response written back as the bytes it was parsed from
StatusByte(st) ==
    IF st = "Success" THEN 0 ELSE IF st = "ParseError" THEN 1 ELSE 2
Unparse(r) == <<r.tag % 256, r.tag \div 256, StatusByte(r.status), r.status_info>> \o r.data

C8_GlobalBudget ==
    rxv = "hid" =>
        /\ NumEmpty(reads) <= 6
        /\ retries = 5 - (IF NumEmpty(reads) < 5 THEN NumEmpty(reads) ELSE 5)
        /\ NumEmpty(reads) = 6 =>
              (rpc = "done" /\ rresult = "Parse" /\ errAt = "empty")
        /\ (NumEmpty(reads) < 6 /\ reads # << >> /\ IsEmptyRead(reads[Len(reads)]))
              => rpc = "read"

C8_Witness ==
    /\ rxv = "hid" /\ NumEmpty(reads) = 6 /\ Len(reads) = 8
    /\ WellFormed(reads[2]) /\ Count(reads[2]) = 64
    /\ WellFormed(reads[5]) /\ DeclLen(reads[5]) = 3
    /\ rpc = "done" /\ rresult = "Parse"

\* C9: a non-empty read whose declared length is >= its byte count fails with
\* Parse and appends nothing; one whose declared length is < its byte count is
\* accepted and its declared bytes are appended.
C9_LengthCheck ==
    (reads # << >> /\ IsPacket(reads[Len(reads)])) =>
        LET r == reads[Len(reads)]
            before == CatReads(reads, Len(reads) - 1)
        IN IF DeclLen(r) >= Count(r)
           THEN /\ rpc = "done" /\ rresult = "Parse" /\ errAt = "length"
                /\ Accum = before
           ELSE /\ errAt \notin {"length", "kind", "empty", "read"}
                /\ rresult # "panic" =>
                      Accum = before \o SubSeq(r.bytes, 2, 1 + DeclLen(r))

C9_Witness ==
    /\ Len(reads) = 2
    /\ WellFormed(reads[1]) /\ DeclLen(reads[1]) = 3
    /\ IsPacket(reads[2]) /\ DeclLen(reads[2]) = 2 /\ Count(reads[2]) = 2
    /\ rresult = "Parse" /\ Len(Accum) = 3

\* C10: when rx succeeds, the bytes it parsed as the response are the
\* concatenation, in read order, of bytes [1 .. 1+len] of every non-empty
\* packet read: header bytes and bytes beyond len are dropped.
C10_Reassembly ==
    rresult = "Ok" =>
        /\ resp.ok
        /\ Unparse(resp) = CatReads(reads, Len(reads))
        /\ \A k \in 1..Len(reads) : IsPacket(reads[k]) => WellFormed(reads[k])

C10_Witness ==
    /\ rresult = "Ok" /\ Len(reads) = 2
    /\ IsPacket(reads[1]) /\ IsPacket(reads[2])
    /\ DeclLen(reads[1]) = 3 /\ Count(reads[1]) = 4 /\ KindBits(reads[1]) = 0
    /\ DeclLen(reads[2]) = 5 /\ Count(reads[2]) = 64 /\ KindBits(reads[2]) = 1
    /\ Len(resp.data) = 4

\* the read made last
LastRead == reads[Len(reads)]

\* the loop has consumed a packet that is not Inner
TerminalConsumed ==
    /\ reads # << >>
    /\ WellFormed(LastRead)
    /\ KindBits(LastRead) # 0
    /\ rresult # "panic"

\* every byte the packets read so far declared
AllDeclared == CatReads(reads, Len(reads))

C13_ShortBuffer ==
    (TerminalConsumed /\ rpc = "done" /\ Len(AllDeclared) < 4) =>
        (rresult = "Parse" /\ errAt = "response" /\ resp = NoResp)

C13_Witness ==
    /\ Len(reads) = 2 /\ rpc = "done" /\ rresult = "Parse"
    /\ WellFormed(reads[1]) /\ DeclLen(reads[1]) = 0 /\ KindBits(reads[1]) = 0
    /\ WellFormed(reads[2]) /\ DeclLen(reads[2]) = 3 /\ KindBits(reads[2]) = 1

\* C14: a buffer b of at least 4 bytes parses to tag = b[0] + 256 b[1],
\* status Success / ParseError / ExecutionError for b[2] = 0 / 1 / 2,
\* status_info = b[3], data = b[4..]; any other b[2] fails with Parse.
C14_ResponseFields ==
    (TerminalConsumed /\ rpc = "done" /\ Len(AllDeclared) >= 4) =>
        LET b == AllDeclared
        IN IF b[3] \in {0, 1, 2}
           THEN /\ rresult = "Ok"
                /\ resp.ok
                /\ resp.tag = b[1] + 256 * b[2]
                /\ b[3] = 0 => resp.status = "Success"
                /\ b[3] = 1 => resp.status = "ParseError"
                /\ b[3] = 2 => resp.status = "ExecutionError"
                /\ resp.status_info = b[4]
                /\ resp.data = SubSeq(b, 5, Len(b))
           ELSE rresult = "Parse" /\ resp = NoResp

C14_Witness ==
    /\ rpc = "done" /\ rresult = "Ok" /\ TerminalConsumed
    /\ Len(AllDeclared) = 4 /\ resp.data = << >> /\ resp.tag >= 256

\* C16: a read error, a length-field violation and a response that does not
\* parse end the call at once: the failing read is the last read made, no
\* response is returned, and the retry budget is what the empty reads left.
C16_NoRetryOnFailure ==
    /\ \A k \in 1..Len(reads) :
          reads[k].err =>
              /\ k = Len(reads) /\ rpc = "done"
              /\ rresult = "Transmission" /\ errAt = "read" /\ resp = NoResp
    /\ \A k \in 1..Len(reads) :
          (IsPacket(reads[k]) /\ ~WellFormed(reads[k])) =>
              /\ k = Len(reads) /\ rpc = "done"
              /\ rresult = "Parse" /\ errAt = "length" /\ resp = NoResp
    /\ errAt = "response" =>
          /\ rpc = "done" /\ rresult = "Parse" /\ resp = NoResp
          /\ TerminalConsumed
          /\ (Len(AllDeclared) < 4 \/ AllDeclared[3] \notin {0, 1, 2})
    /\ (rxv = "hid" /\ errAt \in {"read", "length", "response"}) =>
          retries = 5 - (IF NumEmpty(reads) < 5 THEN NumEmpty(reads) ELSE 5)

C16_Witness ==
    /\ rxv = "hid" /\ Len(reads) = 4 /\ NumEmpty(reads) = 2
    /\ WellFormed(reads[3])
    /\ IsPacket(reads[4]) /\ ~WellFormed(reads[4])
    /\ errAt = "length" /\ retries = 3 /\ rpc = "done"

\* C18: a well-formed run whose status byte is 1 or 2 makes rx return Ok with
\* that status and status_info; the tag is returned as read, whatever it is.
C18_StatusIsValue ==
    (TerminalConsumed /\ rpc = "done" /\ Len(AllDeclared) >= 4
        /\ AllDeclared[3] \in {1, 2}) =>
        /\ rresult = "Ok" /\ errAt = "none"
        /\ resp.ok
        /\ StatusByte(resp.status) = AllDeclared[3]
        /\ resp.status_info = AllDeclared[4]
        /\ resp.tag % 256 = AllDeclared[1] /\ resp.tag \div 256 = AllDeclared[2]

C18_Witness ==
    /\ rpc = "done" /\ rresult = "Ok"
    /\ resp.status = "ExecutionError" /\ resp.status_info # 0
    /\ resp.tag # tag

\* the reads that delivered something (or failed)
StripEmpty(log) == SelectSeq(log, LAMBDA r : ~IsEmptyRead(r))

\* C19: (retrying rx) an empty read leaves the accumulated bytes, the read
\* buffer and the response untouched, and with at most five empty reads the
\* outcome is that of the reads without the empty ones.
C19_EmptyTransparent ==
    /\ [](rxv = "hid" =>
            /\ bitsnbytes = CatReads(StripEmpty(reads), Len(StripEmpty(reads)))
            /\ NumEmpty(reads) <= 5 => errAt # "empty"
            /\ rresult = "Ok" =>
                  Unparse(resp) = CatReads(StripEmpty(reads), Len(StripEmpty(reads))))
    /\ [][(rxv = "hid" /\ Len(reads') = Len(reads) + 1
             /\ IsEmptyRead(reads'[Len(reads')]))
            => (bitsnbytes' = bitsnbytes /\ rbuffer' = rbuffer /\ resp' = resp)]_vars

C19_Witness ==
    /\ rxv = "hid" /\ rresult = "Ok" /\ Len(reads) = 8 /\ NumEmpty(reads) = 5
    /\ IsEmptyRead(reads[1]) /\ IsPacket(reads[2]) /\ IsEmptyRead(reads[3])
    /\ IsPacket(reads[5]) /\ IsEmptyRead(reads[7]) /\ IsPacket(reads[8])

(* ------------- one read, of any header byte and any byte count -------- *)
\* what my_read can report for a 64-byte buffer that was filled
Counts == 1..ReadBufLen

\* the read made before: a full Inner packet that fills the read buffer
FullInner == ReadBytes(seed, 1, Inner * 64 + ChunkSize, ReadBufLen)

\* d.my_read(buffer)? returns count >= 1, the header byte being any u8
RxReadAny ==
    /\ rpc = "read"
    /\ Cardinality({k \in 1..Len(reads) : IsPacket(reads[k])}) = 1
    /\ \E hdr \in U8, count \in Counts :
          RxPacket(ReadBytes(seed, ReadNo, hdr, count))
    /\ UNCHANGED <<xvars, dvars, calls, multi, rxv, seed, cap, resp>>

\* rx after its loop body has run once, on FullInner
InitRead ==
    /\ XmitIdle
    /\ DecodeIdle
    /\ calls = << >> /\ multi = FALSE
    /\ rxv \in Variants
    /\ seed \in Seeds
    /\ cap \in (IF rxv = "plain" THEN {c \in Caps : c >= ChunkSize} ELSE {0})
    /\ rpc = "read"
    /\ rbuffer = Deliver(Zeros(ReadBufLen), FullInner)
    /\ bitsnbytes = (IF rxv = "plain"
                     THEN WriteAt(Zeros(cap), 0, PayloadSlice(FullInner, LenField(FullInner[1])))
                     ELSE PayloadSlice(FullInner, LenField(FullInner[1])))
    /\ roffset = (IF rxv = "plain" THEN LenField(FullInner[1]) ELSE 0)
    /\ retries = RetriesInit
    /\ reads = << [err |-> FALSE, bytes |-> FullInner] >>
    /\ rresult = "none"
    /\ errAt = "none"
    /\ resp = NoResp

NextRead == RxReadAny \/ RxReadEmpty \/ RxParse

SpecRead == InitRead /\ [][NextRead]_vars

(* ============ claims about the scratch and read buffers (SpecRx) ======= *)
\* C21: (rx writing into the caller's scratch buffer) no write into the
\* scratch buffer is attempted at an index past its end: rx never aborts on
\* an index out of range, and a run of well-formed packets whose payload is
\* longer than the scratch buffer ends the call with an error.
C21_ScratchBounds ==
    rxv = "plain" =>
        /\ rresult # "panic"
        /\ errAt # "bounds"
        /\ (/\ reads # << >>
             /\ \A k \in 1..Len(reads) : WellFormed(reads[k])
             /\ Len(AllDeclared) > cap)
              => (rpc = "done" /\ rresult \in {"Parse", "Transmission"})

(* ============ claims about one read of any shape (under SpecRead) ====== *)
\* the bytes the step appends to the accumulated bytes
Appended == SubSeq(Accum', Len(Accum) + 1, Len(Accum'))

\* the read the step makes
NewRead == reads'[Len(reads')]

\* C22: whatever the header byte (0..255) and the byte count (1..64) of a
\* read, the bytes rx appends for it are bytes 1..=len of that same read,
\* with len < count <= 64; what an earlier, longer read left in the 64-byte
\* read buffer is never appended, and a read that declares more than it
\* delivered appends nothing.
C22_ReadBufferBounds ==
    /\ [](Len(rbuffer) = ReadBufLen)
    /\ [][(Len(reads') = Len(reads) + 1 /\ IsPacket(NewRead)) =>
            /\ Count(NewRead) <= ReadBufLen
            /\ rbuffer' = NewRead.bytes \o
                             SubSeq(rbuffer, Count(NewRead) + 1, ReadBufLen)
            /\ Take(Accum', Len(Accum)) = Accum
            /\ IF DeclLen(NewRead) < Count(NewRead)
               THEN Appended = SubSeq(NewRead.bytes, 2, DeclLen(NewRead) + 1)
               ELSE Appended = << >> /\ errAt' = "length"]_vars

C22_Witness ==
    /\ Len(reads) = 2 /\ rpc = "done" /\ rresult = "Ok"
    /\ Count(reads[1]) = ReadBufLen
    /\ Count(reads[2]) = 4 /\ DeclLen(reads[2]) = 3
    /\ rbuffer[5] = reads[1].bytes[5] /\ rbuffer[5] # 0
    /\ Len(Accum) = DeclLen(reads[1]) + 3

\* C23: inside rx the kind decode cannot fail: for every header byte the
\* kind decoded from header >> 6 is one of Inner, Final, StdOut, Stderr (the
\* top two bits) and the length is header & 0x3F (the low six bits); a
\* packet read makes rx fail with Parse in its loop only by len >= count,
\* the other Parse error of the loop being the empty read out of retries.
C23_KindDecodeTotal ==
    /\ errAt # "kind"
    /\ \A k \in 1..Len(reads) :
          IsPacket(reads[k]) =>
              /\ PacketTypeTryFrom(Shr6(reads[k].bytes[1])) \in {Inner, Final, StdOut, Stderr}
              /\ PacketTypeTryFrom(Shr6(reads[k].bytes[1])) = KindBits(reads[k])
              /\ LenField(reads[k].bytes[1]) = DeclLen(reads[k])
    /\ (rpc = "done" /\ rresult = "Parse" /\ errAt # "response") =>
          \/ errAt = "length" /\ IsPacket(LastRead) /\ DeclLen(LastRead) >= Count(LastRead)
          \/ errAt = "empty" /\ IsEmptyRead(LastRead)
    /\ (IsPacket(LastRead) /\ DeclLen(LastRead) < Count(LastRead)) =>
          /\ rresult # "Parse" \/ errAt = "response"
          /\ KindBits(LastRead) = Inner => rpc = "read"
          /\ KindBits(LastRead) # Inner => rpc \in {"parse", "done"}

C23_Witness ==
    /\ Len(reads) = 2 /\ reads[2].bytes = ReadBytes(seed, 2, 255, ReadBufLen)
    /\ rpc \in {"parse", "done"} /\ errAt # "length"
    /\ Len(Accum) = 2 * ChunkSize

(* ============ claims about PacketType::try_from (under SpecDecode) ===== *)
\* C15: PacketType::try_from maps 0, 1, 2, 3 to Inner, Final, StdOut, Stderr
\* (four different kinds) and fails with Parse for every value from 4 on.
C15_PacketTypeDecode ==
    /\ Cardinality({Inner, Final, StdOut, Stderr, NoKind}) = 5
    /\ dres # NotDecoded =>
          /\ dval = 0 => dres = Inner
          /\ dval = 1 => dres = Final
          /\ dval = 2 => dres = StdOut
          /\ dval = 3 => dres = Stderr
          /\ dval >= 4 => dres = NoKind

C15_Witness == dval = 255 /\ dres = NoKind

(* ============== claims about two rx calls (under SpecRx2) ============== *)
\* everything the transport delivered to the two calls, empty reads left out
Delivered == StripEmpty((IF calls = << >> THEN << >> ELSE calls[1].reads) \o reads)

\* the first read of the log that is a terminal packet (0: there is none)
RECURSIVE FirstTerminal(_)
FirstTerminal(log) ==
    IF log = << >> THEN 0
    ELSE IF IsPacket(Head(log)) /\ KindBits(Head(log)) # 0 THEN 1
    ELSE IF FirstTerminal(Tail(log)) = 0 THEN 0
    ELSE 1 + FirstTerminal(Tail(log))

Run1 == SubSeq(Delivered, 1, FirstTerminal(Delivered))
Run2 == SubSeq(Delivered, FirstTerminal(Delivered) + 1, Len(Delivered))

\* the transport held two complete valid runs back to back
TwoRuns == ValidRunFrom(Run1, 0) /\ ValidRunFrom(Run2, 0)

\* empty reads a call gets over
Allowed == IF rxv = "hid" THEN RetriesInit ELSE 0

\* C12: each successful rx call consumes exactly one packet run. When the
\* second of two calls has returned and both succeeded, the first call read up
\* to the first terminal packet and no further, and each call's response is
\* the one carried by its own run; and two valid runs back to back make both
\* calls succeed.
C12_OneRunPerCall ==
    (Len(calls) = 1 /\ rpc = "done") =>
        /\ (calls[1].rresult = "Ok" /\ rresult = "Ok") =>
              /\ StripEmpty(calls[1].reads) = Run1
              /\ StripEmpty(reads) = Run2
              /\ FirstTerminal(Run2) = Len(Run2)
              /\ Unparse(calls[1].resp) = CatReads(Run1, Len(Run1))
              /\ Unparse(resp) = CatReads(Run2, Len(Run2))
        /\ (/\ TwoRuns
             /\ NumEmpty(calls[1].reads) <= Allowed /\ NumEmpty(reads) <= Allowed
             /\ calls[1].rresult # "panic" /\ rresult # "panic")
              => (calls[1].rresult = "Ok" /\ rresult = "Ok")

C12_Witness ==
    /\ Len(calls) = 1 /\ rpc = "done"
    /\ calls[1].rresult = "Ok" /\ rresult = "Ok"
    /\ TwoRuns /\ Len(Run2) = 2
    /\ Unparse(calls[1].resp) # Unparse(resp)

\* C20: (retrying rx) the retry budget is not carried from one call to the
\* next: in every call retries is five less the empty reads of that call
\* alone, so a call that follows one that used up the budget still gets over
\* five empty reads.
C20_FreshBudget ==
    rxv = "hid" =>
        /\ retries = RetriesInit - Min(RetriesInit, NumEmpty(reads))
        /\ \A c \in 1..Len(calls) :
              calls[c].retries = RetriesInit - Min(RetriesInit, NumEmpty(calls[c].reads))
        /\ (Len(reads) <= RetriesInit /\ \A k \in 1..Len(reads) : IsEmptyRead(reads[k]))
              => (rpc = "read" /\ rresult = "none")
        /\ (LeadingEmpty(reads) <= RetriesInit
               /\ ValidRunFrom(reads, LeadingEmpty(reads)) /\ rpc = "done")
              => rresult = "Ok"

C20_Witness ==
    /\ rxv = "hid" /\ Len(calls) = 1
    /\ calls[1].errAt = "empty" /\ calls[1].retries = 0
    /\ NumEmpty(calls[1].reads) = 6
    /\ NumEmpty(reads) = 5 /\ rresult = "Ok"

====
